---- MODULE Spec2Model ----
(***************************************************************************)
(* Model of s3-simple-benchmarker (src/main.go): the trial loops of        *)
(* uploadFiles and downloadFiles, the aggregation in main, and the two     *)
(* statistics functions calculateAverage and calculateP90.                 *)
(*                                                                         *)
(* Durations are integers (time.Duration is an int64 of nanoseconds).      *)
(* A speed is float64(bytes) / duration.Seconds() / 1024 / 1024; it is     *)
(* kept as the exact ratio [bytes, dur], compared by cross-multiplication, *)
(* so that a zero duration gives +Inf exactly as the float division does.  *)
(***************************************************************************)
EXTENDS Integers, Sequences, FiniteSets, TLC

\* ---- bounds of the model ----
MaxTrials == 3
MaxDur == 2
MaxFileSizeMb == 2
MaxLen == 11
MaxVal == 2
MaxPermLen == 4

\* 1024 * 1024, the factor of main.go:51
MB == 1048576

None == "none"

VARIABLES
    pc,             \* position of main
    trials,         \* -trials
    fileSize,       \* fileSizeMb after main.go:51, in bytes
    i,              \* loop index of the running phase
    uploadTimes, uploadSpeeds,
    downloadTimes, downloadSpeeds,
    opLog,          \* backend operations issued, in order
    statCalls,      \* calls of calculateAverage / calculateP90, in order
    report,         \* the Report value of main
    printed,        \* has main.go:73 run
    input,          \* statistics harness: the sequence as the caller built it
    values,         \* statistics harness: the caller's slice
    shuffled,       \* statistics harness: a permutation of input, as built
    result,         \* statistics harness: value returned for values
    result2,        \* statistics harness: value returned for shuffled
    call            \* statistics harness: which function has been applied

runVars == <<pc, trials, fileSize, i, uploadTimes, uploadSpeeds,
             downloadTimes, downloadSpeeds, opLog, statCalls, report, printed>>
statVars == <<input, values, shuffled, result, result2, call>>
vars == <<pc, trials, fileSize, i, uploadTimes, uploadSpeeds,
          downloadTimes, downloadSpeeds, opLog, statCalls, report, printed,
          input, values, shuffled, result, result2, call>>

\* ---- values ----

\* float64(bytes) / duration.Seconds() / 1024 / 1024, as an exact ratio
Speed(bytes, duration) == [bytes |-> bytes, dur |-> duration]

IsInf(s) == s.dur = 0 /\ s.bytes > 0

\* the instantiations of calculateP90[T]
Duration == "time.Duration"
Float64 == "float64"

\* the comparator of calculateP90: a type switch over []time.Duration and
\* []float64; T stands for the dynamic type of values
Less(T, a, b) ==
    IF T = Duration
    THEN a < b
    ELSE a.bytes * b.dur < b.bytes * a.dur

\* an insertion that never moves the element left
InsertLeft_append(T, s, x) == Append(s, x)

\* sort.Slice on a slice of at most 12 elements is an insertion sort: each
\* element moves left while it is less than its predecessor
RECURSIVE InsertLeft(_, _, _)
InsertLeft(T, s, x) ==
    IF s = <<>> \/ ~Less(T, x, s[Len(s)])
    THEN Append(s, x)
    ELSE Append(InsertLeft(T, SubSeq(s, 1, Len(s) - 1), x), s[Len(s)])

\* calculateP90 without its sort.Slice call
SortSlice_none(T, s) == s

RECURSIVE SortSlice(_, _)
SortSlice(T, s) ==
    IF s = <<>>
    THEN <<>>
    ELSE InsertLeft(T, SortSlice(T, SubSeq(s, 1, Len(s) - 1)), s[Len(s)])

\* the index of the last element instead of int(0.9 * len)
p90Index_last(n) == n - 1

\* int(0.9 * float64(len(values)))
p90Index(n) == (9 * n) \div 10

\* calculateP90 sorts the slice it is given and returns values[p90Index]:
\* values is the slice after the call, value the value returned, panic
\* tells that the index was out of range
calculateP90(T, vals) ==
    LET sorted == SortSlice(T, vals)
        idx == p90Index(Len(vals))
    IN  IF idx + 1 \in DOMAIN sorted
        THEN [values |-> sorted, panic |-> FALSE, value |-> sorted[idx + 1]]
        ELSE [values |-> sorted, panic |-> TRUE, value |-> None]

\* totalTime = t instead of totalTime += t
totalTime_last(times) ==
    IF times = <<>> THEN 0 ELSE times[Len(times)]

RECURSIVE totalTime(_)
totalTime(times) ==
    IF times = <<>> THEN 0 ELSE totalTime(SubSeq(times, 1, Len(times) - 1)) + times[Len(times)]

\* calculateAverage: an integer division, which panics on an empty slice
calculateAverage(times) ==
    IF Len(times) = 0
    THEN [panic |-> TRUE, value |-> None]
    ELSE [panic |-> FALSE, value |-> totalTime(times) \div Len(times)]

\* ---- the benchmark run: main, uploadFiles, downloadFiles ----

\* the zero value of Report
ZeroReport ==
    [AvgUploadTime |-> 0, AvgDownloadTime |-> 0,
     P90UploadTime |-> 0, P90UploadSpeed |-> Speed(0, 1),
     P90DownloadTime |-> 0, P90DownloadSpeed |-> Speed(0, 1)]

\* elapsed times time.Since can report
Durations == 0..MaxDur

\* byte counts io.Copy can report for an object of the expected size
PayloadSizes(expected) == {expected - 1, expected, expected + 1}

StatIdle ==
    /\ input = <<>>
    /\ values = <<>>
    /\ shuffled = <<>>
    /\ result = None
    /\ result2 = None
    /\ call = "idle"

\* main up to the flag.Parse of line 37
Init ==
    /\ pc = "main"
    /\ trials \in -1..MaxTrials
    /\ \E fileSizeMb \in 1..MaxFileSizeMb : fileSize = fileSizeMb * MB
    /\ i = 0
    /\ uploadTimes = <<>>
    /\ uploadSpeeds = <<>>
    /\ downloadTimes = <<>>
    /\ downloadSpeeds = <<>>
    /\ opLog = <<>>
    /\ statCalls = <<>>
    /\ report = ZeroReport
    /\ printed = FALSE
    /\ StatIdle

\* os.Exit(1) when endpoint, access key, secret key or bucket name is missing
ConfigMissing ==
    /\ pc = "main"
    /\ pc' = "exit1"
    /\ UNCHANGED <<trials, fileSize, i, uploadTimes, uploadSpeeds, downloadTimes,
                   downloadSpeeds, opLog, statCalls, report, printed>>
    /\ UNCHANGED statVars

\* log.Fatalf when newMinioClient fails
ClientError ==
    /\ pc = "main"
    /\ pc' = "fatal"
    /\ UNCHANGED <<trials, fileSize, i, uploadTimes, uploadSpeeds, downloadTimes,
                   downloadSpeeds, opLog, statCalls, report, printed>>
    /\ UNCHANGED statVars

\* main calls uploadFiles
StartUpload ==
    /\ pc = "main"
    /\ pc' = "upload"
    /\ i' = 1
    /\ UNCHANGED <<trials, fileSize, uploadTimes, uploadSpeeds, downloadTimes,
                   downloadSpeeds, opLog, statCalls, report, printed>>
    /\ UNCHANGED statVars

\* an iteration of uploadFiles that forgets to append the speed
PutOk_noSpeed(duration) ==
    /\ pc = "upload"
    /\ i <= trials
    /\ opLog' = Append(opLog, [op |-> "put", key |-> i, ok |-> TRUE, size |-> fileSize])
    /\ uploadTimes' = Append(uploadTimes, duration)
    /\ i' = i + 1
    /\ UNCHANGED <<pc, trials, fileSize, uploadSpeeds, downloadTimes, downloadSpeeds,
                   statCalls, report, printed>>
    /\ UNCHANGED statVars

\* one iteration of the loop of uploadFiles whose PutObject succeeds
PutOk(duration) ==
    /\ pc = "upload"
    /\ i <= trials
    /\ opLog' = Append(opLog, [op |-> "put", key |-> i, ok |-> TRUE, size |-> fileSize])
    /\ uploadTimes' = Append(uploadTimes, duration)
    /\ uploadSpeeds' = Append(uploadSpeeds, Speed(fileSize, duration))
    /\ i' = i + 1
    /\ UNCHANGED <<pc, trials, fileSize, downloadTimes, downloadSpeeds,
                   statCalls, report, printed>>
    /\ UNCHANGED statVars

\* a failed PutObject that is logged and skipped instead of being fatal
PutFail_skip ==
    /\ pc = "upload"
    /\ i <= trials
    /\ opLog' = Append(opLog, [op |-> "put", key |-> i, ok |-> FALSE, size |-> fileSize])
    /\ i' = i + 1
    /\ UNCHANGED <<pc, trials, fileSize, uploadTimes, uploadSpeeds, downloadTimes,
                   downloadSpeeds, statCalls, report, printed>>
    /\ UNCHANGED statVars

\* one iteration of the loop of uploadFiles whose PutObject fails: log.Fatalf
PutFail ==
    /\ pc = "upload"
    /\ i <= trials
    /\ opLog' = Append(opLog, [op |-> "put", key |-> i, ok |-> FALSE, size |-> fileSize])
    /\ pc' = "fatal"
    /\ UNCHANGED <<trials, fileSize, i, uploadTimes, uploadSpeeds, downloadTimes,
                   downloadSpeeds, statCalls, report, printed>>
    /\ UNCHANGED statVars

\* an upload loop that runs while i < numFiles
StartDownload_early ==
    /\ pc = "upload"
    /\ ~(i < trials)
    /\ pc' = "download"
    /\ i' = 1
    /\ UNCHANGED <<trials, fileSize, uploadTimes, uploadSpeeds, downloadTimes,
                   downloadSpeeds, opLog, statCalls, report, printed>>
    /\ UNCHANGED statVars

\* uploadFiles returns and main calls downloadFiles
StartDownload ==
    /\ pc = "upload"
    /\ ~(i <= trials)
    /\ pc' = "download"
    /\ i' = 1
    /\ UNCHANGED <<trials, fileSize, uploadTimes, uploadSpeeds, downloadTimes,
                   downloadSpeeds, opLog, statCalls, report, printed>>
    /\ UNCHANGED statVars

\* one iteration of the loop of downloadFiles whose GetObject fails
GetObjectFail ==
    /\ pc = "download"
    /\ i <= trials
    /\ opLog' = Append(opLog, [op |-> "get", key |-> i, ok |-> FALSE, size |-> 0])
    /\ pc' = "fatal"
    /\ UNCHANGED <<trials, fileSize, i, uploadTimes, uploadSpeeds, downloadTimes,
                   downloadSpeeds, statCalls, report, printed>>
    /\ UNCHANGED statVars

\* one iteration of the loop of downloadFiles whose io.Copy fails
CopyFail(payloadSize) ==
    /\ pc = "download"
    /\ i <= trials
    /\ opLog' = Append(opLog, [op |-> "get", key |-> i, ok |-> FALSE, size |-> payloadSize])
    /\ pc' = "fatal"
    /\ UNCHANGED <<trials, fileSize, i, uploadTimes, uploadSpeeds, downloadTimes,
                   downloadSpeeds, statCalls, report, printed>>
    /\ UNCHANGED statVars

\* downloadFiles without its size check
sizeMatches_always(payloadSize, expectedFileSize) == TRUE

\* the size check of downloadFiles
sizeMatches(payloadSize, expectedFileSize) == payloadSize = expectedFileSize

\* one iteration of the loop of downloadFiles whose payload was drained:
\* log.Fatalf on a size mismatch, a sample otherwise
GetDrained(payloadSize, duration) ==
    /\ pc = "download"
    /\ i <= trials
    /\ opLog' = Append(opLog, [op |-> "get", key |-> i, ok |-> TRUE, size |-> payloadSize])
    /\ IF ~sizeMatches(payloadSize, fileSize)
       THEN /\ pc' = "fatal"
            /\ UNCHANGED <<i, downloadTimes, downloadSpeeds>>
       ELSE /\ downloadTimes' = Append(downloadTimes, duration)
            /\ downloadSpeeds' = Append(downloadSpeeds, Speed(payloadSize, duration))
            /\ i' = i + 1
            /\ pc' = pc
    /\ UNCHANGED <<trials, fileSize, uploadTimes, uploadSpeeds, statCalls, report, printed>>
    /\ UNCHANGED statVars

\* downloadFiles returns to main
FinishDownload ==
    /\ pc = "download"
    /\ ~(i <= trials)
    /\ pc' = "avgUpload"
    /\ UNCHANGED <<trials, fileSize, i, uploadTimes, uploadSpeeds, downloadTimes,
                   downloadSpeeds, opLog, statCalls, report, printed>>
    /\ UNCHANGED statVars

\* ---- the aggregation of main ----

\* main.go:64: report.Avg.UploadTime = calculateAverage(uploadTimes)
AvgUpload ==
    /\ pc = "avgUpload"
    /\ statCalls' = Append(statCalls, [fn |-> "calculateAverage", len |-> Len(uploadTimes)])
    /\ LET avg == calculateAverage(uploadTimes)
       IN  IF avg.panic
           THEN pc' = "panic" /\ report' = report
           ELSE pc' = "avgDownload" /\ report' = [report EXCEPT !.AvgUploadTime = avg.value]
    /\ UNCHANGED <<trials, fileSize, i, uploadTimes, uploadSpeeds, downloadTimes,
                   downloadSpeeds, opLog, printed>>
    /\ UNCHANGED statVars

\* main.go:65: report.Avg.DownloadTime = calculateAverage(downloadTimes)
AvgDownload ==
    /\ pc = "avgDownload"
    /\ statCalls' = Append(statCalls, [fn |-> "calculateAverage", len |-> Len(downloadTimes)])
    /\ LET avg == calculateAverage(downloadTimes)
       IN  IF avg.panic
           THEN pc' = "panic" /\ report' = report
           ELSE pc' = "p90UploadTime" /\ report' = [report EXCEPT !.AvgDownloadTime = avg.value]
    /\ UNCHANGED <<trials, fileSize, i, uploadTimes, uploadSpeeds, downloadTimes,
                   downloadSpeeds, opLog, printed>>
    /\ UNCHANGED statVars

\* main.go:67: report.P90.UploadTime = calculateP90(uploadTimes), which sorts
\* uploadTimes in place
P90UploadTime ==
    /\ pc = "p90UploadTime"
    /\ statCalls' = Append(statCalls, [fn |-> "calculateP90", len |-> Len(uploadTimes)])
    /\ LET r == calculateP90(Duration, uploadTimes)
       IN  /\ uploadTimes' = r.values
           /\ IF r.panic
              THEN pc' = "panic" /\ report' = report
              ELSE pc' = "p90UploadSpeed" /\ report' = [report EXCEPT !.P90UploadTime = r.value]
    /\ UNCHANGED <<trials, fileSize, i, uploadSpeeds, downloadTimes, downloadSpeeds,
                   opLog, printed>>
    /\ UNCHANGED statVars

\* main.go:68: report.P90.UploadSpeed = calculateP90(uploadSpeeds), which sorts
\* uploadSpeeds in place
P90UploadSpeed ==
    /\ pc = "p90UploadSpeed"
    /\ statCalls' = Append(statCalls, [fn |-> "calculateP90", len |-> Len(uploadSpeeds)])
    /\ LET r == calculateP90(Float64, uploadSpeeds)
       IN  /\ uploadSpeeds' = r.values
           /\ IF r.panic
              THEN pc' = "panic" /\ report' = report
              ELSE pc' = "p90DownloadTime" /\ report' = [report EXCEPT !.P90UploadSpeed = r.value]
    /\ UNCHANGED <<trials, fileSize, i, uploadTimes, downloadTimes, downloadSpeeds,
                   opLog, printed>>
    /\ UNCHANGED statVars

\* main.go:70: report.P90.DownloadTime = calculateP90(downloadTimes), which sorts
\* downloadTimes in place
P90DownloadTime ==
    /\ pc = "p90DownloadTime"
    /\ statCalls' = Append(statCalls, [fn |-> "calculateP90", len |-> Len(downloadTimes)])
    /\ LET r == calculateP90(Duration, downloadTimes)
       IN  /\ downloadTimes' = r.values
           /\ IF r.panic
              THEN pc' = "panic" /\ report' = report
              ELSE pc' = "p90DownloadSpeed" /\ report' = [report EXCEPT !.P90DownloadTime = r.value]
    /\ UNCHANGED <<trials, fileSize, i, uploadTimes, uploadSpeeds, downloadSpeeds,
                   opLog, printed>>
    /\ UNCHANGED statVars

\* main.go:71: report.P90.DownloadSpeed = calculateP90(downloadSpeeds), which sorts
\* downloadSpeeds in place
P90DownloadSpeed ==
    /\ pc = "p90DownloadSpeed"
    /\ statCalls' = Append(statCalls, [fn |-> "calculateP90", len |-> Len(downloadSpeeds)])
    /\ LET r == calculateP90(Float64, downloadSpeeds)
       IN  /\ downloadSpeeds' = r.values
           /\ IF r.panic
              THEN pc' = "panic" /\ report' = report
              ELSE pc' = "print" /\ report' = [report EXCEPT !.P90DownloadSpeed = r.value]
    /\ UNCHANGED <<trials, fileSize, i, uploadTimes, uploadSpeeds, downloadTimes,
                   opLog, printed>>
    /\ UNCHANGED statVars

\* main.go:73: the report is printed and main returns
PrintReport ==
    /\ pc = "print"
    /\ printed' = TRUE
    /\ pc' = "done"
    /\ UNCHANGED <<trials, fileSize, i, uploadTimes, uploadSpeeds, downloadTimes,
                   downloadSpeeds, opLog, statCalls, report>>
    /\ UNCHANGED statVars

Next ==
    \/ ConfigMissing
    \/ ClientError
    \/ StartUpload
    \/ \E duration \in Durations : PutOk(duration)
    \/ PutFail
    \/ StartDownload
    \/ GetObjectFail
    \/ \E payloadSize \in PayloadSizes(fileSize) : CopyFail(payloadSize)
    \/ \E payloadSize \in PayloadSizes(fileSize), duration \in Durations :
           GetDrained(payloadSize, duration)
    \/ FinishDownload
    \/ AvgUpload
    \/ AvgDownload
    \/ P90UploadTime
    \/ P90UploadSpeed
    \/ P90DownloadTime
    \/ P90DownloadSpeed
    \/ PrintReport

Spec == Init /\ [][Next]_vars

\* ---- properties of the run ----

\* the puts and the gets issued so far
Puts == SelectSeq(opLog, LAMBDA e : e.op = "put")
Gets == SelectSeq(opLog, LAMBDA e : e.op = "get")

\* the number of trial indices 1..trialCount
NumTrials == Cardinality(1..trials)

Aggregating ==
    pc \in {"avgUpload", "avgDownload", "p90UploadTime", "p90UploadSpeed",
            "p90DownloadTime", "p90DownloadSpeed", "print", "done", "panic"}

LastOp == opLog[Len(opLog)]

\* C1: trials run one after the other in index order 1..trialCount, every
\* put precedes every get, no get is issued before the put of the last
\* trial has succeeded, and a run that reaches the aggregation has issued
\* one put and then one get for each index of 1..trialCount.
C1_SequentialPhases ==
    /\ \A m, n \in DOMAIN opLog :
           (opLog[m].op = "put" /\ opLog[n].op = "get") => m < n
    /\ \A n \in DOMAIN Puts : Puts[n].key = n
    /\ \A n \in DOMAIN Gets : Gets[n].key = n
    /\ Gets # <<>> =>
           /\ Len(Puts) = trials
           /\ \A n \in DOMAIN Puts : Puts[n].ok
    /\ Aggregating =>
           /\ Len(Puts) = NumTrials
           /\ Len(Gets) = NumTrials
           /\ \A n \in DOMAIN opLog : opLog[n].ok

C1_Witness ==
    /\ pc = "done"
    /\ trials >= 2
    /\ Len(opLog) = 2 * trials

\* C2: a put or get that returns an error is the last backend operation of
\* the run: nothing is issued after it, it is not issued again, no sample
\* is appended for its trial, and no statistic is computed or printed.
C2_FailFast ==
    /\ \A n \in DOMAIN opLog : ~opLog[n].ok => n = Len(opLog)
    /\ (opLog # <<>> /\ ~LastOp.ok) =>
           /\ pc = "fatal"
           /\ statCalls = <<>>
           /\ report = ZeroReport
           /\ ~printed
           /\ LastOp.op = "put" =>
                  /\ Len(uploadTimes) = LastOp.key - 1
                  /\ Len(uploadSpeeds) = LastOp.key - 1
           /\ LastOp.op = "get" =>
                  /\ Len(downloadTimes) = LastOp.key - 1
                  /\ Len(downloadSpeeds) = LastOp.key - 1

C2_Witness ==
    /\ opLog # <<>>
    /\ ~LastOp.ok
    /\ LastOp.op = "get"
    /\ LastOp.key = 2

\* C3: a drained payload whose size differs from the expected size ends the
\* run before a sample of that trial is recorded and before any statistic,
\* so every download sample was computed from exactly the expected size.
C3_Integrity ==
    /\ \A n \in DOMAIN opLog :
           (opLog[n].op = "get" /\ opLog[n].ok /\ opLog[n].size # fileSize) =>
               /\ n = Len(opLog)
               /\ pc = "fatal"
               /\ Len(downloadTimes) = opLog[n].key - 1
               /\ Len(downloadSpeeds) = opLog[n].key - 1
               /\ statCalls = <<>>
               /\ ~printed
    /\ \A n \in DOMAIN downloadSpeeds : downloadSpeeds[n].bytes = fileSize
    /\ Len(downloadTimes) =
           Len(SelectSeq(Gets, LAMBDA e : e.ok /\ e.size = fileSize))

C3_Witness ==
    /\ opLog # <<>>
    /\ LastOp.op = "get"
    /\ LastOp.ok
    /\ LastOp.size # fileSize
    /\ LastOp.key = 2
    /\ Len(downloadTimes) = 1

\* C4: calculateAverage and calculateP90 are only ever called on a series
\* with at least one element, whatever integer -trials is.
C4_StatsNeverEmpty ==
    \A n \in DOMAIN statCalls : statCalls[n].len >= 1

\* C8: no sample with infinite speed is ever appended to a series or put
\* in the report.
C8_NoInfiniteSpeed ==
    /\ \A n \in DOMAIN uploadSpeeds : ~IsInf(uploadSpeeds[n])
    /\ \A n \in DOMAIN downloadSpeeds : ~IsInf(downloadSpeeds[n])
    /\ ~IsInf(report.P90UploadSpeed)
    /\ ~IsInf(report.P90DownloadSpeed)

\* C9: in each phase the duration list and the speed list have the same
\* length, the number of trials completed so far, and when the aggregation
\* starts both series hold one sample for each index of 1..trialCount.
C9_SeriesLengths ==
    /\ Len(uploadTimes) = Len(uploadSpeeds)
    /\ Len(downloadTimes) = Len(downloadSpeeds)
    /\ Len(uploadTimes) = Len(SelectSeq(Puts, LAMBDA e : e.ok))
    /\ pc = "upload" => Len(uploadTimes) = i - 1
    /\ pc = "download" =>
           /\ Len(downloadTimes) = i - 1
           /\ Len(uploadTimes) = NumTrials
    /\ Aggregating =>
           /\ Len(uploadTimes) = NumTrials
           /\ Len(downloadTimes) = NumTrials

C9_Witness ==
    /\ pc = "avgUpload"
    /\ trials >= 2
    /\ Len(uploadTimes) = trials
    /\ Len(downloadSpeeds) = trials

\* ---- calculateAverage and calculateP90 applied to arbitrary series ----

\* the series of n durations drawn from the set D
RECURSIVE SeqsOfLen(_, _)
SeqsOfLen(n, D) ==
    IF n = 0
    THEN {<<>>}
    ELSE {Append(s, v) : s \in SeqsOfLen(n - 1, D), v \in D}

\* the series the functions are applied to: every series of at most
\* MaxPermLen durations of 0..MaxVal, and every series of at most MaxLen
\* durations with two distinct values
Inputs ==
    UNION ({SeqsOfLen(n, 0..MaxVal) : n \in 1..MaxPermLen}
           \cup {SeqsOfLen(n, {0, MaxVal}) : n \in 1..MaxLen})

RunIdle ==
    /\ pc = "stat"
    /\ trials = 0
    /\ fileSize = 0
    /\ i = 0
    /\ uploadTimes = <<>>
    /\ uploadSpeeds = <<>>
    /\ downloadTimes = <<>>
    /\ downloadSpeeds = <<>>
    /\ opLog = <<>>
    /\ statCalls = <<>>
    /\ report = ZeroReport
    /\ printed = FALSE

InitStat ==
    /\ RunIdle
    /\ input \in Inputs
    /\ values = input
    /\ shuffled = input
    /\ result = None
    /\ result2 = None
    /\ call = "input"

\* the caller holds the same elements in another order
Shuffle(j, k) ==
    /\ call = "input"
    /\ Len(input) <= MaxPermLen
    /\ j \in DOMAIN shuffled
    /\ k \in DOMAIN shuffled
    /\ shuffled[j] # shuffled[k]
    /\ shuffled' = [shuffled EXCEPT ![j] = shuffled[k], ![k] = shuffled[j]]
    /\ UNCHANGED <<input, values, result, result2, call>>
    /\ UNCHANGED runVars

\* calculateP90(values) and calculateP90(shuffled)
CallP90 ==
    /\ call = "input"
    /\ LET r == calculateP90(Duration, values)
           r2 == calculateP90(Duration, shuffled)
       IN  /\ values' = r.values
           /\ result' = r.value
           /\ result2' = r2.value
    /\ call' = "calculateP90"
    /\ UNCHANGED <<input, shuffled>>
    /\ UNCHANGED runVars

\* calculateAverage(values) and calculateAverage(shuffled)
CallAverage ==
    /\ call = "input"
    /\ result' = calculateAverage(values).value
    /\ result2' = calculateAverage(shuffled).value
    /\ call' = "calculateAverage"
    /\ UNCHANGED <<input, values, shuffled>>
    /\ UNCHANGED runVars

NextStat ==
    \/ \E j \in 1..MaxLen, k \in 1..MaxLen : Shuffle(j, k)
    \/ CallP90
    \/ CallAverage

SpecStat == InitStat /\ [][NextStat]_vars

\* ---- properties of calculateP90 and calculateAverage ----

\* how many elements of s satisfy v < x, and v <= x
CountBelow(s, x) == Cardinality({p \in DOMAIN s : s[p] < x})
CountUpTo(s, x) == Cardinality({p \in DOMAIN s : s[p] <= x})

\* how often x occurs in s
Occurrences(s, x) == Cardinality({p \in DOMAIN s : s[p] = x})

IsPermutation(s, t) ==
    /\ Len(s) = Len(t)
    /\ \A p \in DOMAIN s : Occurrences(s, s[p]) = Occurrences(t, s[p])

IsAscending(s) == \A p, q \in DOMAIN s : p < q => s[p] <= s[q]

\* the sum of s, element by element from the head
RECURSIVE SumFromHead(_)
SumFromHead(s) == IF s = <<>> THEN 0 ELSE Head(s) + SumFromHead(Tail(s))

C6_P90Selection ==
    call = "calculateP90" =>
        LET n == Len(input) IN
        /\ \E idx \in 0..(n - 1) :
               /\ 10 * idx <= 9 * n
               /\ 9 * n < 10 * (idx + 1)
               /\ CountBelow(input, result) <= idx
               /\ CountUpTo(input, result) > idx
        /\ \E p \in DOMAIN input : input[p] = result
        /\ n \in {1, 3, 10} => \A p \in DOMAIN input : input[p] <= result

C6_Witness ==
    /\ call = "calculateP90"
    /\ Len(input) = 11
    /\ \E p \in DOMAIN input : input[p] > result

\* C7: calculateP90 returns the same value for a series and for every
\* permutation of it.
C7_PermutationInvariant ==
    call = "calculateP90" =>
        (IsPermutation(shuffled, input) /\ result2 = result)

C7_Witness ==
    /\ call = "calculateP90"
    /\ shuffled # input
    /\ Len(input) >= 3
    /\ input[Len(input)] # result

\* C10: calculateAverage returns the sum of the durations divided by their
\* number, truncated, which is exact when the number divides the sum, and
\* the same for every order of the durations.
C10_Average ==
    call = "calculateAverage" =>
        LET n == Len(input)
            sum == SumFromHead(input)
        IN  /\ result * n <= sum
            /\ sum < (result + 1) * n
            /\ sum % n = 0 => result * n = sum
            /\ result2 = result

C10_Witness ==
    /\ call = "calculateAverage"
    /\ Len(input) >= 3
    /\ SumFromHead(input) % Len(input) # 0
    /\ result > 0
    /\ shuffled # input

====
